---- MODULE Spec2Model ----
(***************************************************************************)
(* Model of the package initializer yews/datasets/__init__.py.            *)
(*                                                                         *)
(* The file is a list of fourteen import statements followed by the        *)
(* assignment of __all__.  Its behaviour is the behaviour of the Python    *)
(* import system on that module body:                                      *)
(*   - the first `import yews.datasets` creates a module object, enters it *)
(*     in sys.modules and executes the body statement by statement;        *)
(*   - a statement that raises aborts the body, the entry is removed from  *)
(*     sys.modules and the exception reaches the importer;                 *)
(*   - an import of a name already in sys.modules returns the cached       *)
(*     module object without executing anything;                           *)
(*   - `from M import *` walks M.__all__ in order and looks every name up  *)
(*     as an attribute of M (or, without __all__, takes every name of M    *)
(*     that does not start with an underscore).                            *)
(* The collaborator modules base, packaged_datasets and utils are not part *)
(* of the file; what they export is an input chosen in Init.               *)
(***************************************************************************)
EXTENDS Naturals, Sequences, FiniteSets, TLC

VARIABLES
    loadable,    \* collaborator modules whose own body executes without error
    exports,     \* collaborator module -> set of attribute names it defines
    utilsAll,    \* the __all__ of utils: [defined, names]
    sysModules,  \* names present in sys.modules
    pkgState,    \* "uninitialized" | "initializing" | "initialized" | "failed"
    pc,          \* statement of the body to execute next (0: body not running)
    modId,       \* identity of the package's module object (0: none created yet)
    execCount,   \* number of times the module body has been started
    ns,          \* namespace of that module object: name -> object
    __all__,     \* the package's __all__: [defined, names]
    error,       \* exception raised to the importer by the last body execution
    imports,     \* number of `import yews.datasets` statements the consumer has executed
    imported,    \* module object the consumer's last successful import returned (0: none)
    lastGet,     \* result of the consumer's last attribute access on the package
    scope,       \* names bound in the consumer's scope by `from yews.datasets import *`
    starState    \* "none" | "ok" | "raised": outcome of the consumer's wildcard import

vars == <<loadable, exports, utilsAll, sysModules, pkgState, pc, modId, execCount, ns,
          __all__, error, imports, imported, lastGet, scope, starState>>

envVars == <<loadable, exports, utilsAll>>
consumerVars == <<lastGet, scope, starState>>

----------------------------------------------------------------------------
(* Bounds *)

MaxImports == 3     \* import statements the consumer executes
MaxDefects == 1     \* collaborator defects (unloadable module, missing symbol) in one run

----------------------------------------------------------------------------
(* The module body *)

PkgName == "yews.datasets"

Modules == {"base", "packaged_datasets", "utils"}

\* `from .<mod> import <name>` resolves <mod> relative to the package
SubmoduleName(mod) == PkgName \o "." \o mod

\* the import list with statement 13 repeating statement 12
ImportStmtsRepeated ==
    << [mod |-> "base",              name |-> "BaseDataset"],
       [mod |-> "base",              name |-> "Dataset"],
       [mod |-> "base",              name |-> "DirDataset"],
       [mod |-> "base",              name |-> "FileDataset"],
       [mod |-> "base",              name |-> "is_dataset"],
       [mod |-> "base",              name |-> "PathDataset"],
       [mod |-> "packaged_datasets", name |-> "Mariana"],
       [mod |-> "packaged_datasets", name |-> "PackagedDataset"],
       [mod |-> "packaged_datasets", name |-> "SCSN"],
       [mod |-> "packaged_datasets", name |-> "Wenchuan"],
       [mod |-> "packaged_datasets", name |-> "SCSN_polarity"],
       [mod |-> "packaged_datasets", name |-> "Taiwan_focal_mechanism"],
       [mod |-> "packaged_datasets", name |-> "Taiwan_focal_mechanism"],
       [mod |-> "utils",             name |-> "*"] >>

\* the fourteen import statements, in source order
ImportStmts ==
    << [mod |-> "base",              name |-> "BaseDataset"],
       [mod |-> "base",              name |-> "Dataset"],
       [mod |-> "base",              name |-> "DirDataset"],
       [mod |-> "base",              name |-> "FileDataset"],
       [mod |-> "base",              name |-> "is_dataset"],
       [mod |-> "base",              name |-> "PathDataset"],
       [mod |-> "packaged_datasets", name |-> "Mariana"],
       [mod |-> "packaged_datasets", name |-> "PackagedDataset"],
       [mod |-> "packaged_datasets", name |-> "SCSN"],
       [mod |-> "packaged_datasets", name |-> "Wenchuan"],
       [mod |-> "packaged_datasets", name |-> "SCSN_polarity"],
       [mod |-> "packaged_datasets", name |-> "Taiwan_focal_mechanism"],
       [mod |-> "packaged_datasets", name |-> "Taiwan20092010"],
       [mod |-> "utils",             name |-> "*"] >>

NumNamedImports == 13
StarStmt == 14
AllStmt == 15

\* the list literal with a comma between its last two strings
AllowListWithComma ==
    << "BaseDataset",
       "PathDataset",
       "FileDataset",
       "DirDataset",
       "Dataset",
       "PackagedDataset",
       "Wenchuan",
       "Mariana",
       "SCSN",
       "SCSN_polarity",
       "Taiwan_focal_mechanism",
       "Taiwan20092010" >>

\* the list literal assigned to __all__; the last two string literals are
\* adjacent without a comma, which Python concatenates into one string
AllowList ==
    << "BaseDataset",
       "PathDataset",
       "FileDataset",
       "DirDataset",
       "Dataset",
       "PackagedDataset",
       "Wenchuan",
       "Mariana",
       "SCSN",
       "SCSN_polarity",
       "Taiwan_focal_mechanism" \o "Taiwan20092010" >>

Range(s) == {s[i] : i \in 1..Len(s)}

NamedStmts == {ImportStmts[i] : i \in 1..NumNamedImports}
NamedSymbols == {st.name : st \in NamedStmts}

\* the names the body imports by name from module m
Required(m) == {st.name : st \in {s \in NamedStmts : s.mod = m}}

----------------------------------------------------------------------------
(* Collaborators: contents of utils *)

\* names utils may define: public helpers and one underscore-private name
UtilsNames == {"util_a", "util_b", "_util_private"}

\* names a wildcard import skips when the module has no __all__
IsPrivate(n) == n \in {"_util_private"}

NoAll == [defined |-> FALSE, names |-> <<>>]
DefinedAll(s) == [defined |-> TRUE, names |-> s]

\* the __all__ lists utils may carry: none, or a list of at most two names
UtilsAllChoices ==
    {NoAll} \cup {DefinedAll(<<>>)}
            \cup {DefinedAll(<<a>>) : a \in UtilsNames}
            \cup {DefinedAll(<<a, b>>) : a \in {"util_a"}, b \in UtilsNames \ {"util_a"}}

----------------------------------------------------------------------------
(* Objects and namespaces *)

\* the object module m defines under name n
Obj(m, n) == [mod |-> m, name |-> n]
\* the module object of collaborator m
ModuleObj(m) == [mod |-> m, name |-> "<module>"]
NoObj == [mod |-> "", name |-> ""]

EmptyNs == <<>>

\* assignment of o to name n in a namespace (rebinding replaces)
Bind(space, n, o) == (n :> o) @@ space

HasAttr(space, n) == n \in DOMAIN space

NoError == [kind |-> "none", what |-> ""]
Raise(kind, what) == [kind |-> kind, what |-> what]

NoGet == [name |-> "", ok |-> FALSE, obj |-> NoObj]

Outcome(ok, space, mods, err) == [ok |-> ok, ns |-> space, mods |-> mods, err |-> err]

----------------------------------------------------------------------------
Init ==
    /\ \E broken \in SUBSET Modules, missing \in SUBSET NamedSymbols,
          ua \in SUBSET UtilsNames, uall \in UtilsAllChoices :
          /\ Cardinality(broken) + Cardinality(missing) <= MaxDefects
          /\ loadable = Modules \ broken
          /\ exports = [m \in Modules |->
                           IF m = "utils" THEN ua ELSE Required(m) \ missing]
          /\ utilsAll = uall
    /\ sysModules = {}
    /\ pkgState = "uninitialized"
    /\ pc = 0
    /\ modId = 0
    /\ execCount = 0
    /\ ns = EmptyNs
    /\ __all__ = NoAll
    /\ error = NoError
    /\ imports = 0
    /\ imported = 0
    /\ lastGet = NoGet
    /\ scope = EmptyNs
    /\ starState = "none"

----------------------------------------------------------------------------
(* Statement semantics *)

\* resolving `.m` from inside the package: a cached submodule is reused;
\* otherwise its body runs, and on success it is entered in sys.modules and
\* bound as attribute m of the package
LoadSubmodule(space, mods, m) ==
    IF SubmoduleName(m) \in mods
    THEN Outcome(TRUE, space, mods, NoError)
    ELSE IF m \in loadable
         THEN Outcome(TRUE, Bind(space, m, ModuleObj(m)),
                      mods \cup {SubmoduleName(m)}, NoError)
         ELSE Outcome(FALSE, space, mods, Raise("ModuleLoadError", m))

\* an import statement that swallows a missing name instead of raising
ImportFromLenient(space, mods, stmt) ==
    LET l == LoadSubmodule(space, mods, stmt.mod) IN
    IF ~l.ok THEN l
    ELSE IF stmt.name \in exports[stmt.mod]
         THEN Outcome(TRUE, Bind(l.ns, stmt.name, Obj(stmt.mod, stmt.name)),
                      l.mods, NoError)
         ELSE Outcome(TRUE, l.ns, l.mods, NoError)

\* an import statement that binds an object of the package's own instead
\* of the source module's object
ImportFromCopy(space, mods, stmt) ==
    LET l == LoadSubmodule(space, mods, stmt.mod) IN
    IF ~l.ok THEN l
    ELSE IF stmt.name \in exports[stmt.mod]
         THEN Outcome(TRUE, Bind(l.ns, stmt.name, Obj(PkgName, stmt.name)),
                      l.mods, NoError)
         ELSE Outcome(FALSE, l.ns, l.mods, Raise("ImportError", stmt.name))

\* `from .<mod> import <name>`: load the submodule, fetch the attribute,
\* bind it under the same name; a missing attribute raises ImportError
ImportFrom(space, mods, stmt) ==
    LET l == LoadSubmodule(space, mods, stmt.mod) IN
    IF ~l.ok THEN l
    ELSE IF stmt.name \in exports[stmt.mod]
         THEN Outcome(TRUE, Bind(l.ns, stmt.name, Obj(stmt.mod, stmt.name)),
                      l.mods, NoError)
         ELSE Outcome(FALSE, l.ns, l.mods, Raise("ImportError", stmt.name))

\* the walk of a module's __all__ by a wildcard import: every name is
\* looked up in src and bound in dst, in order; the first name that is not
\* an attribute raises AttributeError and leaves the earlier bindings in dst
RECURSIVE WalkAll(_, _, _, _)
WalkAll(src, names, i, dst) ==
    IF i > Len(names)
    THEN [ok |-> TRUE, ns |-> dst, err |-> NoError]
    ELSE IF HasAttr(src, names[i])
         THEN WalkAll(src, names, i + 1, Bind(dst, names[i], src[names[i]]))
         ELSE [ok |-> FALSE, ns |-> dst, err |-> Raise("AttributeError", names[i])]

PublicNames(src) == {n \in DOMAIN src : ~IsPrivate(n)}

\* a wildcard import that ignores __all__ and takes every public name
ImportAllFromIgnoringAll(src, all, dst) ==
    [ok |-> TRUE, ns |-> [n \in PublicNames(src) |-> src[n]] @@ dst,
     err |-> NoError]

\* `from M import *` with M's namespace src and M's __all__ all
ImportAllFrom(src, all, dst) ==
    IF all.defined
    THEN WalkAll(src, all.names, 1, dst)
    ELSE [ok |-> TRUE, ns |-> [n \in PublicNames(src) |-> src[n]] @@ dst,
          err |-> NoError]

\* the namespace of the loaded utils module
UtilsNs == [n \in exports["utils"] |-> Obj("utils", n)]

\* `from .utils import *`
ImportStar(space, mods) ==
    LET l == LoadSubmodule(space, mods, "utils") IN
    IF ~l.ok THEN l
    ELSE LET w == ImportAllFrom(UtilsNs, utilsAll, l.ns) IN
         Outcome(w.ok, w.ns, l.mods, w.err)

----------------------------------------------------------------------------
(* Execution of the module body *)

\* a statement returned normally: go on with the next one
Continue(o) ==
    /\ ns' = o.ns
    /\ sysModules' = o.mods
    /\ pc' = pc + 1
    /\ UNCHANGED <<pkgState, error, __all__, imported>>

\* a statement raised: the body is abandoned, the package leaves
\* sys.modules (loaded submodules stay) and the importer gets the exception
Abort(o) ==
    /\ ns' = o.ns
    /\ sysModules' = o.mods \ {PkgName}
    /\ pc' = 0
    /\ pkgState' = "failed"
    /\ error' = o.err
    /\ UNCHANGED <<__all__, imported>>

\* statements 1..13
ExecImportFrom(i) ==
    /\ pkgState = "initializing"
    /\ pc = i
    /\ LET o == ImportFrom(ns, sysModules, ImportStmts[i]) IN
       IF o.ok THEN Continue(o) ELSE Abort(o)
    /\ UNCHANGED <<envVars, consumerVars, modId, execCount, imports>>

\* statement 14
ExecImportStar ==
    /\ pkgState = "initializing"
    /\ pc = StarStmt
    /\ LET o == ImportStar(ns, sysModules) IN
       IF o.ok THEN Continue(o) ELSE Abort(o)
    /\ UNCHANGED <<envVars, consumerVars, modId, execCount, imports>>

\* statement 15, the last one: the body is complete and the import
\* statement that started it returns the module object
ExecAssignAll ==
    /\ pkgState = "initializing"
    /\ pc = AllStmt
    /\ __all__' = DefinedAll(AllowList)
    /\ pc' = 0
    /\ pkgState' = "initialized"
    /\ imported' = modId
    /\ UNCHANGED <<envVars, consumerVars, sysModules, modId, execCount, ns,
                   error, imports>>

----------------------------------------------------------------------------
(* The consumer *)

\* an import that re-executes the body in the cached module object
ImportReload ==
    /\ pkgState # "initializing"
    /\ imports < MaxImports
    /\ PkgName \in sysModules
    /\ imports' = imports + 1
    /\ execCount' = execCount + 1
    /\ pkgState' = "initializing"
    /\ pc' = 1
    /\ UNCHANGED <<envVars, consumerVars, sysModules, modId, ns, __all__,
                   error, imported>>

\* `import yews.datasets` while the package is in sys.modules: the cached
\* module object is returned and nothing is executed
ImportCached ==
    /\ pkgState # "initializing"
    /\ imports < MaxImports
    /\ PkgName \in sysModules
    /\ imports' = imports + 1
    /\ imported' = modId
    /\ UNCHANGED <<envVars, consumerVars, sysModules, pkgState, pc, modId,
                   execCount, ns, __all__, error>>

\* an import that never consults sys.modules
ImportFreshUnguarded ==
    /\ pkgState # "initializing"
    /\ imports < MaxImports
    /\ imports' = imports + 1
    /\ modId' = modId + 1
    /\ execCount' = execCount + 1
    /\ sysModules' = sysModules \cup {PkgName}
    /\ pkgState' = "initializing"
    /\ pc' = 1
    /\ ns' = EmptyNs
    /\ __all__' = NoAll
    /\ error' = NoError
    /\ UNCHANGED <<envVars, consumerVars, imported>>

\* `import yews.datasets` while the package is not in sys.modules: a new
\* module object is created and entered, and its body starts
ImportFresh ==
    /\ pkgState # "initializing"
    /\ imports < MaxImports
    /\ PkgName \notin sysModules
    /\ imports' = imports + 1
    /\ modId' = modId + 1
    /\ execCount' = execCount + 1
    /\ sysModules' = sysModules \cup {PkgName}
    /\ pkgState' = "initializing"
    /\ pc' = 1
    /\ ns' = EmptyNs
    /\ __all__' = NoAll
    /\ error' = NoError
    /\ UNCHANGED <<envVars, consumerVars, imported>>

\* names the consumer looks up
ProbeNames == NamedSymbols \cup Range(AllowList) \cup UtilsNames \cup Modules

\* `yews.datasets.<n>` on the imported package
GetAttr(n) ==
    /\ pkgState = "initialized"
    /\ imported = modId
    /\ lastGet' = [name |-> n, ok |-> HasAttr(ns, n),
                   obj |-> IF HasAttr(ns, n) THEN ns[n] ELSE NoObj]
    /\ UNCHANGED <<envVars, sysModules, pkgState, pc, modId, execCount, ns,
                   __all__, error, imports, imported, scope, starState>>

\* `from yews.datasets import *` in the consumer's module
WildcardImport ==
    /\ pkgState = "initialized"
    /\ starState = "none"
    /\ LET w == ImportAllFrom(ns, __all__, scope) IN
       /\ scope' = w.ns
       /\ starState' = IF w.ok THEN "ok" ELSE "raised"
    /\ UNCHANGED <<envVars, sysModules, pkgState, pc, modId, execCount, ns,
                   __all__, error, imports, imported, lastGet>>

Next ==
    \/ ImportFresh
    \/ ImportCached
    \/ \E i \in 1..NumNamedImports : ExecImportFrom(i)
    \/ ExecImportStar
    \/ ExecAssignAll
    \/ \E n \in ProbeNames : GetAttr(n)
    \/ WildcardImport

Spec == Init /\ [][Next]_vars

TypeOK ==
    /\ pkgState \in {"uninitialized", "initializing", "initialized", "failed"}
    /\ pc \in 0..AllStmt
    /\ starState \in {"none", "ok", "raised"}
    /\ imports \in 0..MaxImports
    /\ modId \in 0..MaxImports

----------------------------------------------------------------------------
(* Properties *)

AllowNames == Range(__all__.names)

TaiwanNames == {"Taiwan_focal_mechanism", "Taiwan20092010"}

ConcatenatedName == "Taiwan_focal_mechanismTaiwan20092010"

BaseSix == {"BaseDataset", "Dataset", "DirDataset", "FileDataset",
            "is_dataset", "PathDataset"}

PackagedSeven == {"Mariana", "PackagedDataset", "SCSN", "Wenchuan",
                  "SCSN_polarity", "Taiwan_focal_mechanism", "Taiwan20092010"}

TenListed == {"BaseDataset", "PathDataset", "FileDataset", "DirDataset",
              "Dataset", "PackagedDataset", "Wenchuan", "Mariana", "SCSN",
              "SCSN_polarity"}

\* the names `from .utils import *` binds in the package
UtilsStarNames ==
    IF utilsAll.defined THEN Range(utilsAll.names)
    ELSE {n \in exports["utils"] : ~IsPrivate(n)}

\* a collaborator cannot be loaded, or lacks a name an import statement names
CollaboratorDefect ==
    \/ loadable # Modules
    \/ \E m \in Modules : \E n \in (IF m = "base" THEN BaseSix
                                    ELSE IF m = "packaged_datasets" THEN PackagedSeven
                                    ELSE {}) : n \notin exports[m]

\* C1: once the package is initialized, every name of __all__ is an
\* attribute of the package bound to an object, and a wildcard import of the
\* package has bound it in the importer's scope.
C1_AllowListResolvable ==
    pkgState = "initialized" =>
        \A n \in AllowNames :
            /\ HasAttr(ns, n)
            /\ starState # "none" => HasAttr(scope, n)

\* C2: when a collaborator cannot be loaded or lacks a named symbol, the
\* package never becomes initialized; a failed initialization leaves an
\* error with the importer and no package in sys.modules; and whenever the
\* consumer can see the package in sys.modules, all thirteen named symbols
\* and __all__ are bound (no partial namespace).
C2_NoPartialNamespace ==
    /\ CollaboratorDefect => pkgState # "initialized"
    /\ pkgState = "failed" =>
          /\ error # NoError
          /\ PkgName \notin sysModules
          /\ imported # modId
    /\ (pkgState # "initializing" /\ PkgName \in sysModules) =>
          /\ pkgState = "initialized"
          /\ BaseSix \cup PackagedSeven \subseteq DOMAIN ns
          /\ UtilsStarNames \subseteq DOMAIN ns
          /\ __all__.defined

\* a failed run that had already bound names before SCSN was found missing
C2_Witness ==
    /\ pkgState = "failed"
    /\ error = Raise("ImportError", "SCSN")
    /\ HasAttr(ns, "Mariana")
    /\ PkgName \notin sysModules

\* C3: in an initialized package every name of __all__ is a symbol exported
\* by one of the source modules (a name that is not makes initialization
\* fail).
C3_AllowListMatchesExports ==
    pkgState = "initialized" =>
        \A n \in AllowNames : \E m \in Modules : n \in exports[m]

\* C4: after a wildcard import of the initialized package the importer's
\* scope holds exactly the names of __all__.
C4_WildcardBindsExactlyAllowList ==
    starState # "none" => DOMAIN scope = AllowNames

\* C5: in an initialized package Taiwan_focal_mechanism and Taiwan20092010
\* are attributes, and an attribute access to either succeeds, although
\* neither is in __all__.
C5_TaiwanAttributesResolve ==
    pkgState = "initialized" =>
        \A n \in TaiwanNames :
            /\ HasAttr(ns, n)
            /\ lastGet.name = n => (lastGet.ok /\ lastGet.obj = ns[n])

C5_Witness ==
    /\ pkgState = "initialized"
    /\ lastGet.name = "Taiwan20092010"
    /\ lastGet.ok
    /\ "Taiwan20092010" \notin AllowNames

\* C6: once the package is initialized, every step leaves it initialized
\* with the same module object, namespace and __all__, the body has run
\* exactly once and does not run again, and an import statement returns the
\* module object already held.
C6_ReimportIdempotent ==
    [][(pkgState = "initialized" =>
          /\ pkgState' = "initialized"
          /\ modId' = modId
          /\ ns' = ns
          /\ __all__' = __all__
          /\ execCount = 1
          /\ execCount' = 1
          /\ (imports' # imports => (imported' = modId /\ imported' = imported)))]_vars

C6_Witness ==
    /\ pkgState = "initialized"
    /\ imports >= 2
    /\ imported = modId
    /\ execCount = 1

\* C7: the assigned __all__ has 11 entries, one of them the concatenated
\* string, and neither Taiwan name; after a wildcard import of the package
\* the importer's scope has neither Taiwan name and has the ten other
\* listed names.
C7_ConcatenatedEntry ==
    /\ __all__.defined =>
          /\ Len(__all__.names) = 11
          /\ ConcatenatedName \in AllowNames
          /\ TaiwanNames \cap AllowNames = {}
          /\ TenListed \subseteq AllowNames
    /\ starState # "none" =>
          /\ TaiwanNames \cap DOMAIN scope = {}
          /\ TenListed \subseteq DOMAIN scope

C7_Witness ==
    /\ starState = "raised"
    /\ HasAttr(scope, "SCSN_polarity")
    /\ ~HasAttr(scope, "Taiwan20092010")

\* C8 as stated: initialized and failed are both terminal, the body never
\* runs again from either, and the namespace of an initialized package
\* never changes.
C8_BothTerminal ==
    [][(pkgState \in {"initialized", "failed"} =>
          /\ pkgState' = pkgState
          /\ execCount' = execCount
          /\ (pkgState = "initialized" => ns' = ns))]_vars

\* C8 amended: the package leaves uninitialized only by starting its body,
\* the body ends initialized or failed, and initialized is terminal (same
\* namespace, no further execution of the body); failed is not terminal:
\* a later import starts the body again in a new, empty module object.
C8_InitializedTerminal ==
    [][(
       /\ pkgState = "uninitialized" =>
             pkgState' \in {"uninitialized", "initializing"}
       /\ pkgState = "initializing" =>
             pkgState' \in {"initializing", "initialized", "failed"}
       /\ pkgState = "initialized" =>
             /\ pkgState' = "initialized"
             /\ ns' = ns
             /\ __all__' = __all__
             /\ execCount' = execCount
       /\ pkgState = "failed" =>
             \/ (pkgState' = "failed" /\ execCount' = execCount /\ ns' = ns)
             \/ /\ pkgState' = "initializing"
                /\ execCount' = execCount + 1
                /\ modId' = modId + 1
                /\ imports' = imports + 1
                /\ ns' = EmptyNs
       )]_vars

\* a second execution of the body has failed after a first failure
C8_Witness ==
    /\ pkgState = "failed"
    /\ execCount = 2
    /\ imports = 2

\* C9: in an initialized package each of the six names imported from base
\* and the seven imported from packaged_datasets is bound to the object its
\* source module defines under that name.
C9_SameObjects ==
    pkgState = "initialized" =>
        /\ \A n \in BaseSix :
              HasAttr(ns, n) /\ ns[n] = [mod |-> "base", name |-> n]
        /\ \A n \in PackagedSeven :
              HasAttr(ns, n) /\ ns[n] = [mod |-> "packaged_datasets", name |-> n]

C9_Witness ==
    /\ pkgState = "initialized"
    /\ lastGet.name = "Mariana"
    /\ lastGet.obj = [mod |-> "packaged_datasets", name |-> "Mariana"]
    /\ UtilsStarNames # {}

\* C10: in an initialized package is_dataset and every name bound by the
\* wildcard import of utils are attributes of the package outside __all__;
\* after a wildcard import of the package the importer's scope is a proper
\* subset of the package's names and holds none of them.
C10_BoundButNotExported ==
    pkgState = "initialized" =>
        /\ \A n \in {"is_dataset"} \cup UtilsStarNames :
              /\ HasAttr(ns, n)
              /\ n \notin AllowNames
              /\ starState # "none" => ~HasAttr(scope, n)
        /\ starState # "none" =>
              /\ DOMAIN scope \subseteq DOMAIN ns
              /\ DOMAIN scope # DOMAIN ns

C10_Witness ==
    /\ pkgState = "initialized"
    /\ starState # "none"
    /\ HasAttr(ns, "util_a")
    /\ ~HasAttr(scope, "util_a")
    /\ ~HasAttr(scope, "is_dataset")

====
